---- MODULE Spec2Model ----
(***************************************************************************)
(* Model of petsys_py_lib/spi.py: the SPI command codec for the AD5535 and *)
(* LTC2668 DACs, the AD7194 ADC, the M95256 EEPROM and the MAX111xx ADC.   *)
(*                                                                         *)
(* One call runs at a time (the library is synchronous).  op names the     *)
(* function being executed, pc its position; every executor round trip     *)
(* conn.spi_master_execute(...) is one step which appends the transaction  *)
(* descriptor to log and the reply it got to replies.                      *)
(* Python index k of a list is index k+1 of the sequence modelling it.     *)
(* The addressing arguments conn, portID, slaveID and chipID are passed    *)
(* through unchanged by every function and are not represented.            *)
(***************************************************************************)
EXTENDS Integers, Sequences, FiniteSets, TLC

VARIABLES op, pc, args, log, replies, a, rr, result, exc, chipMode, chipLast, prevCheck,
          replyShape

vars == <<op, pc, args, log, replies, a, rr, result, exc, chipMode, chipLast, prevCheck,
          replyShape>>

(***************************************************************************)
(* Bounds of the model.                                                    *)
(***************************************************************************)
MaxCmdLen == 2
MaxReadCount == 2
MaxNBytes == 5
MaxData == 2

(***************************************************************************)
(* Python integer operators (arbitrary precision, two's complement).       *)
(***************************************************************************)
Shl(x, n) == x * (2 ^ n)

Shr(x, n) == x \div (2 ^ n)

RECURSIVE BitAnd(_, _)
BitAnd(x, m) ==
    IF m = 0 THEN 0
    ELSE (x % 2) * (m % 2) + 2 * BitAnd(x \div 2, m \div 2)

RECURSIVE BitOr(_, _)
BitOr(x, y) ==
    IF x = 0 THEN y
    ELSE IF y = 0 THEN x
    ELSE (IF (x % 2) + (y % 2) > 0 THEN 1 ELSE 0) + 2 * BitOr(x \div 2, y \div 2)

\* [ v for n in range(k) ]
Fill(k, v) == [n \in 1..k |-> v]

\* r[k] of a Python list
Py(r, k) == r[k + 1]

\* r[1:-1] of a Python sequence
Strip_keeplast(r) == IF Len(r) <= 1 THEN <<>> ELSE SubSeq(r, 2, Len(r))

Strip(r) == IF Len(r) <= 2 THEN <<>> ELSE SubSeq(r, 2, Len(r) - 1)

Min2(x, y) == IF x <= y THEN x ELSE y

(***************************************************************************)
(* The arguments handed to conn.spi_master_execute: the transaction        *)
(* descriptor.  miso_edge is "rising" when the caller does not pass it.    *)
(***************************************************************************)
spi_master_execute(cycle, sclk_on, sclk_off, cs_on, cs_off, mosi_on, mosi_off, miso_on, miso_off, data, freq_sel, miso_edge) ==
    [cycle |-> cycle, sclk_on |-> sclk_on, sclk_off |-> sclk_off,
     cs_on |-> cs_on, cs_off |-> cs_off, mosi_on |-> mosi_on, mosi_off |-> mosi_off,
     miso_on |-> miso_on, miso_off |-> miso_off, data |-> data,
     freq_sel |-> freq_sel, miso_edge |-> miso_edge]

(***************************************************************************)
(* The five low level framers.                                             *)
(***************************************************************************)
ad5535_ll_longcs(data) ==
    LET data1 == Shl(data, 5)
        command == <<BitAnd(Shr(data1, 16), 255), BitAnd(Shr(data1, 8), 255),
                     BitAnd(Shr(data1, 0), 255)>>
        w == 19
        padding == Fill(2, 0)
        p == 8 * Len(padding)
    IN spi_master_execute(p + w + p, p, p + w, p - 1, p + w, 0, p + w + p, p, p + w,
                          padding \o command \o padding, 0, "rising")

ad5535_ll(data) ==
    LET data1 == Shl(data, 5)
        command == <<BitAnd(Shr(data1, 16), 255), BitAnd(Shr(data1, 8), 255),
                     BitAnd(Shr(data1, 0), 255)>>
        w == 19
        padding == Fill(2, 0)
        p == 8 * Len(padding)
    IN spi_master_execute(p + w + p, p, p + w, p - 1, p, 0, p + w + p, p, p + w,
                          padding \o command \o padding, 0, "rising")

ltc2668_ll(command) ==
    LET w == 8 * Len(command)
        padding == Fill(2, 0)
        p == 8 * Len(padding)
    IN spi_master_execute(p + w + p, p, p + w, p - 1, p + w + 1, 0, p + w + p, p, p + w,
                          padding \o command \o padding, 0, "falling")

ad7194_ll(command, read_count) ==
    LET command1 == <<0>> \o command
        w == 8 * Len(command1)
        r == 8 * read_count
        p0 == 2
        w_padding == Fill(p0, 255)
        r_padding == Fill(p0 + read_count, 255)
        p == 8 * p0
    IN spi_master_execute(p + w + r + p, p, p + w + r + 1, p - 1, p + w + r + 1,
                          0, p + w + r + p, p + w, p + w + r,
                          w_padding \o command1 \o r_padding, 1, "falling")

m95256_ll_latecs(command, read_count) ==
    LET w == 8 * Len(command)
        r == 8 * read_count
        p0 == 2
        w_padding == Fill(p0, 255)
        r_padding == Fill(p0 + read_count, 255)
        p == 8 * p0
    IN spi_master_execute(p + w + r + p, p, p + w + r + 1, p - 0, p + w + r + p + 1,
                          0, p + w + r + p, p + w, p + w + r,
                          w_padding \o command \o r_padding, 0, "falling")

m95256_ll(command, read_count) ==
    LET w == 8 * Len(command)
        r == 8 * read_count
        p0 == 2
        w_padding == Fill(p0, 255)
        r_padding == Fill(p0 + read_count, 255)
        p == 8 * p0
    IN spi_master_execute(p + w + r + p, p, p + w + r + 1, p - 0, p + w + r + 0,
                          0, p + w + r + p, p + w, p + w + r,
                          w_padding \o command \o r_padding, 0, "falling")

max111xx_ll(command) ==
    LET w == 8 * Len(command)
        padding == Fill(2, 255)
        p == 8 * Len(padding)
    IN spi_master_execute(p + w + p, p, p + w, 0, p + w + p, 0, p + w + p, p, p + w,
                          padding \o command \o padding, 1, "falling")

(***************************************************************************)
(* The executor's reply.  The executor (the daqd connection object) is not *)
(* part of spi.py, and its reply format is fixed but not known here: it is *)
(* either as long as the payload, or one leading byte, the bytes of the    *)
(* MISO window and one trailing byte.  The bytes the callers read (Python  *)
(* indices 1..3) are whatever the chip drove on MISO.                      *)
(***************************************************************************)
\* number of reply bytes a transaction asks for: the MISO window, in bytes
ReadCountOf(d) == (d.miso_off - d.miso_on) \div 8

ReplyLen(d) == IF replyShape = "payload" THEN Len(d.data) ELSE ReadCountOf(d) + 2

MkReply(n, b1, b2, b3) ==
    [i \in 1..n |-> IF i = 2 THEN b1 ELSE IF i = 3 THEN b2 ELSE IF i = 4 THEN b3 ELSE 255]

\* replies the caller hands back unread
AnyReplies(d) == {MkReply(ReplyLen(d), b, 255, 255) : b \in {0, 255}}

\* replies the caller discards
DiscardedReplies(d) == {MkReply(ReplyLen(d), 255, 255, 255)}

\* replies to a status read: only Python index 1 is inspected
StatusReplies(d) == {MkReply(ReplyLen(d), b, 255, 255) : b \in {0, 1, 2, 128}}

\* replies to the AD7194 data read
DataReplies(d) == {MkReply(ReplyLen(d), b1, b2, b3) : b1 \in {0, 18}, b2 \in {0, 52}, b3 \in {86, 255}}

\* replies to an EEPROM read: every byte is distinguishable by position and seed
ReadReplies(d) == {[i \in 1..ReplyLen(d) |-> (s + i) % 256] : s \in {0, 64}}

\* MAX111xx: an absent chip leaves the bus idle (0xFF), an echoing chip
\* answers with the word written before, a free chip answers anything.
MaxWords == {0, 2748, 12579, 34816, 36864, 65535}

MaxReplies(d) ==
    IF chipMode = "absent" THEN {MkReply(ReplyLen(d), 255, 255, 255)}
    ELSE IF chipMode = "echo"
         THEN {MkReply(ReplyLen(d), chipLast \div 256, chipLast % 256, 255)}
         ELSE {MkReply(ReplyLen(d), w \div 256, w % 256, 255) : w \in MaxWords}

MaxLatch(command) ==
    IF chipMode = "echo" /\ Len(command) = 2 THEN command[1] * 256 + command[2] ELSE chipLast

(***************************************************************************)
(* Inputs.                                                                 *)
(***************************************************************************)
CmdBytes == {0, 165}

Commands == UNION {[1..n -> CmdBytes] : n \in 0..MaxCmdLen}

DataSeqs == UNION {[1..n -> {0, 171}] : n \in 0..MaxData}

DacAChannels == {-1, 0, 1, 21, 31, 33}

DacAValues == {-1, 0, 1, 4660, 16383, 16389}

DacBChannels == {0, 5, 15}

DacBValues == {0, 4660, 65535}

AdcAChannels == {0, 3, 7}

AdcBChannels == {0, 3, 15}

Addresses == {16, 511, 4660}

NoArgs == [channelID |-> 0, value |-> 0, address |-> 0, n_bytes |-> 0,
           data |-> <<>>, command |-> <<>>, read_count |-> 0]

(***************************************************************************)
(* Return values: kind names the Python type, val carries the value as a   *)
(* sequence (empty for None and for a call that has not returned).         *)
(***************************************************************************)
Pending == [kind |-> "pending", val |-> <<>>]

RetNone == [kind |-> "None", val |-> <<>>]

RetInt(v) == [kind |-> "int", val |-> <<v>>]

RetBool(b) == [kind |-> "bool", val |-> <<IF b THEN 1 ELSE 0>>]

RetBytes(s) == [kind |-> "bytes", val |-> s]

Init ==
    /\ op = "idle"
    /\ pc = "idle"
    /\ args = NoArgs
    /\ log = <<>>
    /\ replies = <<>>
    /\ a = 0
    /\ rr = <<>>
    /\ result = Pending
    /\ exc = "none"
    /\ chipMode \in {"absent", "echo", "free"}
    /\ chipLast \in (IF chipMode = "echo" THEN {0, 34816} ELSE {0})
    /\ prevCheck = "none"
    /\ replyShape \in {"payload", "miso"}

\* entering a function: fresh locals
Enter(name, ar, first) ==
    /\ op = "idle"
    /\ op' = name
    /\ args' = ar
    /\ pc' = first
    /\ rr' = <<>>
    /\ exc' = "none"

\* one executor round trip
Xfer(d, r) ==
    /\ log' = Append(log, d)
    /\ replies' = Append(replies, r)

\* the single round trip of a function that returns the executor's reply as is
ReturnReply(d, rs) ==
    \E r \in rs :
        /\ log' = <<d>>
        /\ replies' = <<r>>
        /\ result' = RetBytes(r)

(***************************************************************************)
(* Direct calls of the low level framers.                                  *)
(***************************************************************************)
Call_ad5535_ll ==
    \E data \in {0, 1, 16383, 524287} :
        /\ Enter("ad5535_ll", [NoArgs EXCEPT !.value = data], "end")
        /\ ReturnReply(ad5535_ll(data), AnyReplies(ad5535_ll(data)))
        /\ a' = 0
        /\ UNCHANGED <<replyShape, chipMode, chipLast, prevCheck>>

Call_ltc2668_ll ==
    \E command \in Commands :
        /\ Enter("ltc2668_ll", [NoArgs EXCEPT !.command = command], "end")
        /\ ReturnReply(ltc2668_ll(command), AnyReplies(ltc2668_ll(command)))
        /\ a' = 0
        /\ UNCHANGED <<replyShape, chipMode, chipLast, prevCheck>>

Call_ad7194_ll ==
    \E command \in Commands, read_count \in 0..MaxReadCount :
        /\ Enter("ad7194_ll", [NoArgs EXCEPT !.command = command, !.read_count = read_count], "end")
        /\ ReturnReply(ad7194_ll(command, read_count), AnyReplies(ad7194_ll(command, read_count)))
        /\ a' = 0
        /\ UNCHANGED <<replyShape, chipMode, chipLast, prevCheck>>

Call_m95256_ll ==
    \E command \in Commands, read_count \in 0..MaxReadCount :
        /\ Enter("m95256_ll", [NoArgs EXCEPT !.command = command, !.read_count = read_count], "end")
        /\ ReturnReply(m95256_ll(command, read_count), AnyReplies(m95256_ll(command, read_count)))
        /\ a' = 0
        /\ UNCHANGED <<replyShape, chipMode, chipLast, prevCheck>>

Call_max111xx_ll ==
    \E command \in Commands :
        /\ Enter("max111xx_ll", [NoArgs EXCEPT !.command = command], "end")
        /\ ReturnReply(max111xx_ll(command), MaxReplies(max111xx_ll(command)))
        /\ a' = 0
        /\ chipLast' = MaxLatch(command)
        /\ UNCHANGED <<replyShape, chipMode, prevCheck>>

(***************************************************************************)
(* DAC setters.                                                            *)
(***************************************************************************)
ad5535_command_nomask(channelID, value) ==
    BitOr(Shl(BitAnd(channelID, 31), 14), BitAnd(value, 32767))

ad5535_command(channelID, value) ==
    BitOr(Shl(BitAnd(channelID, 31), 14), BitAnd(value, 16383))

ad5535_set_channel ==
    \E channelID \in DacAChannels, value \in DacAValues :
        /\ Enter("ad5535_set_channel", [NoArgs EXCEPT !.channelID = channelID, !.value = value], "end")
        /\ ReturnReply(ad5535_ll(ad5535_command(channelID, value)), AnyReplies(ad5535_ll(ad5535_command(channelID, value))))
        /\ a' = 0
        /\ UNCHANGED <<replyShape, chipMode, chipLast, prevCheck>>

ltc2668_command(channelID, value) ==
    <<48 + channelID, BitAnd(Shr(value, 8), 255), BitAnd(value, 255)>>

ltc2668_set_channel ==
    \E channelID \in DacBChannels, value \in DacBValues :
        /\ Enter("ltc2668_set_channel", [NoArgs EXCEPT !.channelID = channelID, !.value = value], "end")
        /\ ReturnReply(ltc2668_ll(ltc2668_command(channelID, value)), AnyReplies(ltc2668_ll(ltc2668_command(channelID, value))))
        /\ a' = 0
        /\ UNCHANGED <<replyShape, chipMode, chipLast, prevCheck>>

\* the function returns (or its exception has propagated) and the caller goes on
Return ==
    /\ pc = "end"
    /\ op' = "idle"
    /\ pc' = "idle"
    /\ args' = NoArgs
    /\ log' = <<>>
    /\ replies' = <<>>
    /\ a' = 0
    /\ rr' = <<>>
    /\ result' = Pending
    /\ exc' = "none"
    /\ prevCheck' = IF op = "max111xx_check" /\ result.kind = "bool"
                    THEN (IF result.val = <<1>> THEN "true" ELSE "false")
                    ELSE "none"
    /\ UNCHANGED <<replyShape, chipMode, chipLast>>

(***************************************************************************)
(* ad7194_get_channel.  sleep is bound nowhere in spi.py (the module has   *)
(* no import), so reaching sleep(0.1) raises NameError.                    *)
(***************************************************************************)
ad7194_busy(r) == BitAnd(Py(r, 1), 128) # 0

ad7194_value(r) == Shl(Py(r, 1), 16) + Shl(Py(r, 2), 8) + Py(r, 3)

ad7194_config_command(channelID) == <<16, 4, 0 + Shl(channelID, 4), 88>>

ad7194_get_channel ==
    \E channelID \in AdcAChannels :
        /\ Enter("ad7194_get_channel", [NoArgs EXCEPT !.channelID = channelID], "reset")
        /\ a' = 0
        /\ log' = <<>>
        /\ replies' = <<>>
        /\ result' = Pending
        /\ UNCHANGED <<replyShape, chipMode, chipLast, prevCheck>>

ad7194_reset ==
    /\ op = "ad7194_get_channel" /\ pc = "reset"
    /\ LET d == ad7194_ll(Fill(8, 255), 0)
       IN \E r \in DiscardedReplies(d) : Xfer(d, r)
    /\ pc' = "mode"
    /\ UNCHANGED <<op, args, a, rr, result, exc, replyShape, chipMode, chipLast, prevCheck>>

ad7194_mode ==
    /\ op = "ad7194_get_channel" /\ pc = "mode"
    /\ LET d == ad7194_ll(<<8, 27, 36, 96>>, 0)
       IN \E r \in DiscardedReplies(d) : Xfer(d, r)
    /\ pc' = "config"
    /\ UNCHANGED <<op, args, a, rr, result, exc, replyShape, chipMode, chipLast, prevCheck>>

ad7194_config ==
    /\ op = "ad7194_get_channel" /\ pc = "config"
    /\ LET d == ad7194_ll(ad7194_config_command(args.channelID), 0)
       IN \E r \in DiscardedReplies(d) : Xfer(d, r)
    /\ pc' = "poll"
    /\ UNCHANGED <<op, args, a, rr, result, exc, replyShape, chipMode, chipLast, prevCheck>>

ad7194_poll ==
    /\ op = "ad7194_get_channel" /\ pc = "poll"
    /\ LET d == ad7194_ll(<<64>>, 1)
       IN \E r \in StatusReplies(d) :
             /\ Xfer(d, r)
             /\ IF ad7194_busy(r)
                THEN pc' = "end" /\ exc' = "NameError"
                ELSE pc' = "read" /\ exc' = exc
    /\ UNCHANGED <<op, args, a, rr, result, replyShape, chipMode, chipLast, prevCheck>>

ad7194_read ==
    /\ op = "ad7194_get_channel" /\ pc = "read"
    /\ LET d == ad7194_ll(<<88>>, 4)
       IN \E r \in DataReplies(d) :
             /\ Xfer(d, r)
             /\ result' = RetInt(ad7194_value(r))
    /\ pc' = "end"
    /\ UNCHANGED <<op, args, a, rr, exc, replyShape, chipMode, chipLast, prevCheck>>

(***************************************************************************)
(* m95256_read                                                             *)
(***************************************************************************)
m95256_read_command(addr) == <<3, BitAnd(Shr(addr, 8), 255), BitAnd(addr, 255)>>

m95256_read_count(address, n_bytes, addr) == Min2(2, address + n_bytes - addr)

m95256_read ==
    \E address \in Addresses, n_bytes \in 0..MaxNBytes :
        /\ Enter("m95256_read", [NoArgs EXCEPT !.address = address, !.n_bytes = n_bytes],
                 IF address < address + n_bytes THEN "chunk" ELSE "end")
        /\ a' = address
        /\ log' = <<>>
        /\ replies' = <<>>
        /\ result' = IF address < address + n_bytes THEN Pending ELSE RetBytes(<<>>)
        /\ UNCHANGED <<replyShape, chipMode, chipLast, prevCheck>>

m95256_read_chunk ==
    /\ op = "m95256_read" /\ pc = "chunk"
    /\ LET count == m95256_read_count(args.address, args.n_bytes, a)
           d == m95256_ll(m95256_read_command(a), count)
           more == a + 2 < args.address + args.n_bytes
       IN \E r \in ReadReplies(d) :
             /\ Xfer(d, r)
             /\ rr' = rr \o Strip(r)
             /\ a' = IF more THEN a + 2 ELSE a
             /\ pc' = IF more THEN "chunk" ELSE "end"
             /\ result' = IF more THEN result ELSE RetBytes(rr \o Strip(r))
    /\ UNCHANGED <<op, args, exc, replyShape, chipMode, chipLast, prevCheck>>

(***************************************************************************)
(* m95256_write.  As in ad7194_get_channel, sleep(0.010) raises NameError. *)
(***************************************************************************)
m95256_wip_bit1(r) == BitAnd(Py(r, 1), 2) # 0

m95256_wip(r) == BitAnd(Py(r, 1), 1) # 0

m95256_write_command(address, data) ==
    <<2, BitAnd(Shr(address, 8), 255), BitAnd(address, 255)>> \o data

m95256_write ==
    \E address \in Addresses, data \in DataSeqs :
        /\ Enter("m95256_write", [NoArgs EXCEPT !.address = address, !.data = data], "poll1")
        /\ a' = 0
        /\ log' = <<>>
        /\ replies' = <<>>
        /\ result' = Pending
        /\ UNCHANGED <<replyShape, chipMode, chipLast, prevCheck>>

m95256_write_poll1 ==
    /\ op = "m95256_write" /\ pc = "poll1"
    /\ LET d == m95256_ll(<<5>>, 1)
       IN \E r \in StatusReplies(d) :
             /\ Xfer(d, r)
             /\ IF m95256_wip(r)
                THEN pc' = "end" /\ exc' = "NameError"
                ELSE pc' = "wrdi" /\ exc' = exc
    /\ UNCHANGED <<op, args, a, rr, result, replyShape, chipMode, chipLast, prevCheck>>

m95256_write_wrdi ==
    /\ op = "m95256_write" /\ pc = "wrdi"
    /\ LET d == m95256_ll(<<4>>, 1)
       IN \E r \in DiscardedReplies(d) : Xfer(d, r)
    /\ pc' = "wren"
    /\ UNCHANGED <<op, args, a, rr, result, exc, replyShape, chipMode, chipLast, prevCheck>>

m95256_write_wren ==
    /\ op = "m95256_write" /\ pc = "wren"
    /\ LET d == m95256_ll(<<6>>, 1)
       IN \E r \in DiscardedReplies(d) : Xfer(d, r)
    /\ pc' = "write"
    /\ UNCHANGED <<op, args, a, rr, result, exc, replyShape, chipMode, chipLast, prevCheck>>

m95256_write_data ==
    /\ op = "m95256_write" /\ pc = "write"
    /\ LET d == m95256_ll(m95256_write_command(args.address, args.data), 0)
       IN \E r \in DiscardedReplies(d) : Xfer(d, r)
    /\ pc' = "poll2"
    /\ UNCHANGED <<op, args, a, rr, result, exc, replyShape, chipMode, chipLast, prevCheck>>

m95256_write_poll2 ==
    /\ op = "m95256_write" /\ pc = "poll2"
    /\ LET d == m95256_ll(<<5>>, 1)
       IN \E r \in StatusReplies(d) :
             /\ Xfer(d, r)
             /\ IF m95256_wip(r)
                THEN pc' = "end" /\ exc' = "NameError"
                ELSE pc' = "wrdi2" /\ exc' = exc
    /\ UNCHANGED <<op, args, a, rr, result, replyShape, chipMode, chipLast, prevCheck>>

m95256_write_wrdi2 ==
    /\ op = "m95256_write" /\ pc = "wrdi2"
    /\ LET d == m95256_ll(<<4>>, 1)
       IN \E r \in DiscardedReplies(d) : Xfer(d, r)
    /\ pc' = "end"
    /\ result' = RetNone
    /\ UNCHANGED <<op, args, a, rr, exc, replyShape, chipMode, chipLast, prevCheck>>

(***************************************************************************)
(* max111xx_check and max111xx_read                                        *)
(***************************************************************************)
m_config1 == 32868

m_config2 == 34816

m_config3 == 36864

m_control == 2086

m_repeat == 0

\* [(m >> 8) & 0xFF, m & 0xFF]
Word2(m) == <<BitAnd(Shr(m, 8), 255), BitAnd(m, 255)>>

\* the value of the local variable reply when line 282 is reached: each
\* assignment overwrote the one before, so it is the latest reply
max111xx_config_reply_first(rs) == rs[1]

max111xx_config_reply(rs) == rs[Len(rs)]

\* lines 282-286: neither all-0xFF nor different from (0x88, 0x00)
max111xx_config_ok(reply) ==
    /\ ~(Py(reply, 1) = 255 /\ Py(reply, 2) = 255)
    /\ (Py(reply, 1) = 136 /\ Py(reply, 2) = 0)

\* line 289
max111xx_control_ok_as_config(reply) == Py(reply, 1) = 136 /\ Py(reply, 2) = 0

max111xx_control_ok(reply) == Py(reply, 1) = 144 /\ Py(reply, 2) = 0

max111xx_check ==
    /\ Enter("max111xx_check", NoArgs, "cfg1")
    /\ a' = 0
    /\ log' = <<>>
    /\ replies' = <<>>
    /\ result' = Pending
    /\ UNCHANGED <<replyShape, chipMode, chipLast, prevCheck>>

max111xx_check_cfg1 ==
    /\ op = "max111xx_check" /\ pc = "cfg1"
    /\ LET d == max111xx_ll(Word2(m_config1))
       IN \E r \in MaxReplies(d) : Xfer(d, r)
    /\ chipLast' = MaxLatch(Word2(m_config1))
    /\ pc' = "cfg2"
    /\ UNCHANGED <<op, args, a, rr, result, exc, replyShape, chipMode, prevCheck>>

max111xx_check_cfg2 ==
    /\ op = "max111xx_check" /\ pc = "cfg2"
    /\ LET d == max111xx_ll(Word2(m_config2))
       IN \E r \in MaxReplies(d) : Xfer(d, r)
    /\ chipLast' = MaxLatch(Word2(m_config2))
    /\ pc' = "cfg3"
    /\ UNCHANGED <<op, args, a, rr, result, exc, replyShape, chipMode, prevCheck>>

max111xx_check_cfg3 ==
    /\ op = "max111xx_check" /\ pc = "cfg3"
    /\ LET d == max111xx_ll(Word2(m_config3))
       IN \E r \in MaxReplies(d) :
             /\ Xfer(d, r)
             /\ IF max111xx_config_ok(max111xx_config_reply(Append(replies, r)))
                THEN pc' = "ctl" /\ result' = result
                ELSE pc' = "end" /\ result' = RetBool(FALSE)
    /\ chipLast' = MaxLatch(Word2(m_config3))
    /\ UNCHANGED <<op, args, a, rr, exc, replyShape, chipMode, prevCheck>>

max111xx_check_ctl ==
    /\ op = "max111xx_check" /\ pc = "ctl"
    /\ LET d == max111xx_ll(Word2(m_control))
       IN \E r \in MaxReplies(d) :
             /\ Xfer(d, r)
             /\ result' = RetBool(max111xx_control_ok(r))
    /\ chipLast' = MaxLatch(Word2(m_control))
    /\ pc' = "end"
    /\ UNCHANGED <<op, args, a, rr, exc, replyShape, chipMode, prevCheck>>

max111xx_read_command(channelID) == Word2(m_control + Shl(channelID, 7))

\* lines 301-305
max111xx_decode_noassert(reply, channelID) ==
    LET v == Py(reply, 1) * 256 + Py(reply, 2)
        u == BitAnd(v, 4095)
    IN [exc |-> "none", result |-> RetInt(u)]

max111xx_decode(reply, channelID) ==
    LET v == Py(reply, 1) * 256 + Py(reply, 2)
        u == BitAnd(v, 4095)
        ch == Shr(v, 12)
    IN IF ch = channelID
       THEN [exc |-> "none", result |-> RetInt(u)]
       ELSE [exc |-> "AssertionError", result |-> Pending]

max111xx_read ==
    \E channelID \in AdcBChannels :
        /\ Enter("max111xx_read", [NoArgs EXCEPT !.channelID = channelID], "ctl")
        /\ a' = 0
        /\ log' = <<>>
        /\ replies' = <<>>
        /\ result' = Pending
        /\ UNCHANGED <<replyShape, chipMode, chipLast, prevCheck>>

max111xx_read_ctl ==
    /\ op = "max111xx_read" /\ pc = "ctl"
    /\ LET d == max111xx_ll(max111xx_read_command(args.channelID))
       IN \E r \in MaxReplies(d) : Xfer(d, r)
    /\ chipLast' = MaxLatch(max111xx_read_command(args.channelID))
    /\ pc' = "repeat"
    /\ UNCHANGED <<op, args, a, rr, result, exc, replyShape, chipMode, prevCheck>>

max111xx_read_repeat ==
    /\ op = "max111xx_read" /\ pc = "repeat"
    /\ LET d == max111xx_ll(Word2(m_repeat))
       IN \E r \in MaxReplies(d) :
             /\ Xfer(d, r)
             /\ result' = max111xx_decode(r, args.channelID).result
             /\ exc' = max111xx_decode(r, args.channelID).exc
    /\ chipLast' = MaxLatch(Word2(m_repeat))
    /\ pc' = "end"
    /\ UNCHANGED <<op, args, a, rr, replyShape, chipMode, prevCheck>>

Next ==
    \/ Call_ad5535_ll
    \/ Call_ltc2668_ll
    \/ Call_ad7194_ll
    \/ Call_m95256_ll
    \/ Call_max111xx_ll
    \/ ad5535_set_channel
    \/ ltc2668_set_channel
    \/ ad7194_get_channel
    \/ ad7194_reset
    \/ ad7194_mode
    \/ ad7194_config
    \/ ad7194_poll
    \/ ad7194_read
    \/ m95256_read
    \/ m95256_read_chunk
    \/ m95256_write
    \/ m95256_write_poll1
    \/ m95256_write_wrdi
    \/ m95256_write_wren
    \/ m95256_write_data
    \/ m95256_write_poll2
    \/ m95256_write_wrdi2
    \/ max111xx_check
    \/ max111xx_check_cfg1
    \/ max111xx_check_cfg2
    \/ max111xx_check_cfg3
    \/ max111xx_check_ctl
    \/ max111xx_read
    \/ max111xx_read_ctl
    \/ max111xx_read_repeat
    \/ Return

Spec == Init /\ [][Next]_vars

(***************************************************************************)
(* Reading a transaction back from its descriptor.                         *)
(***************************************************************************)
WindowOK(on, off, cycle) == 0 <= on /\ on <= off /\ off <= cycle

WindowsOK(d) ==
    /\ WindowOK(d.sclk_on, d.sclk_off, d.cycle)
    /\ WindowOK(d.cs_on, d.cs_off, d.cycle)
    /\ WindowOK(d.mosi_on, d.mosi_off, d.cycle)
    /\ WindowOK(d.miso_on, d.miso_off, d.cycle)

\* the command of an EEPROM transaction: the bytes between the two leading
\* padding bytes and the start of the MISO window
M95Cmd(d) == SubSeq(d.data, 3, d.miso_on \div 8)

\* the command of an AD7194 transaction, without the prepended zero byte
AdcCmd(d) == SubSeq(d.data, 4, d.miso_on \div 8)

\* the command of a MAX111xx transaction
MaxCmd(d) == SubSeq(d.data, 3, Len(d.data) - 2)

IsM95(d, cmd, n) == M95Cmd(d) = cmd /\ ReadCountOf(d) = n

IsAdc(d, cmd, n) == AdcCmd(d) = cmd /\ ReadCountOf(d) = n /\ d.data[3] = 0

Bit(r, k, mask) == (r[k + 1] \div mask) % 2

RECURSIVE StrippedConcat(_)
StrippedConcat(rs) ==
    IF rs = <<>> THEN <<>>
    ELSE StrippedConcat(SubSeq(rs, 1, Len(rs) - 1))
         \o (IF Len(rs[Len(rs)]) <= 2 THEN <<>>
             ELSE SubSeq(rs[Len(rs)], 2, Len(rs[Len(rs)]) - 1))

(***************************************************************************)
(* C1: in every transaction descriptor built by any of the five low level  *)
(* framers, each of the four windows (clock-enable, chip-select, MOSI,     *)
(* MISO) satisfies 0 <= start <= end <= cycle length.                      *)
(***************************************************************************)
C1_WindowsWithinCycle == \A i \in 1..Len(log) : WindowsOK(log[i])

C1_Witness ==
    /\ op = "m95256_ll" /\ pc = "end"
    /\ Len(args.command) = MaxCmdLen /\ args.read_count = MaxReadCount
    /\ log[1].cs_off = 16 + 8 * MaxCmdLen + 8 * MaxReadCount

RECURSIVE C2_StrippedLen(_)
C2_StrippedLen(rs) ==
    IF rs = <<>> THEN 0
    ELSE C2_StrippedLen(SubSeq(rs, 1, Len(rs) - 1)) + (Len(rs[Len(rs)]) - 2)

C3_ReadDecode ==
    (op = "max111xx_read" /\ pc = "end") =>
        /\ Len(log) = 2
        /\ MaxCmd(log[1]) = <<((2086 + 128 * args.channelID) \div 256) % 256,
                              (2086 + 128 * args.channelID) % 256>>
        /\ MaxCmd(log[2]) = <<0, 0>>
        /\ LET v == replies[2][2] * 256 + replies[2][3]
           IN IF v \div 4096 # args.channelID
              THEN exc = "AssertionError" /\ result.kind = "pending"
              ELSE exc = "none" /\ result.kind = "int" /\ result.val = <<v % 4096>>

C3_Witness ==
    /\ op = "max111xx_read" /\ pc = "end"
    /\ exc = "AssertionError"
    /\ replies[2][2] * 256 + replies[2][3] = 2748
    /\ args.channelID = 3

(***************************************************************************)
(* C4: two calls of max111xx_check in a row, with nothing else sent to the *)
(* chip in between and a chip that is either absent (all-0xFF replies) or  *)
(* echoes the previously written word, return the same boolean.            *)
(***************************************************************************)
C4_CheckIdempotent ==
    (op = "max111xx_check" /\ pc = "end" /\ prevCheck # "none"
        /\ chipMode \in {"absent", "echo"}) =>
        /\ result.kind = "bool"
        /\ (result.val = <<1>>) <=> (prevCheck = "true")

C4_Witness ==
    /\ op = "max111xx_check" /\ pc = "end"
    /\ chipMode = "echo" /\ prevCheck = "true"
    /\ result.val = <<1>>

(***************************************************************************)
(* C5 as stated: max111xx_check returns false at once when the reply to    *)
(* the first configuration write is all-0xFF or is not (0x88,0x00), false  *)
(* when the control reply is not (0x90,0x00), and true only if all pass.   *)
(***************************************************************************)
C5_FirstReplyDecides ==
    (op = "max111xx_check" /\ pc = "end") =>
        LET first_ok == replies[1][2] = 136 /\ replies[1][3] = 0
        IN /\ ~first_ok => (result.val = <<0>> /\ Len(log) = 1)
           /\ (Len(log) = 4 /\ ~(replies[4][2] = 144 /\ replies[4][3] = 0))
                 => result.val = <<0>>
           /\ result.val = <<1>> =>
                 (first_ok /\ Len(log) = 4 /\ replies[4][2] = 144 /\ replies[4][3] = 0)

(***************************************************************************)
(* C5 amended: max111xx_check issues all three configuration writes and    *)
(* examines only the reply to the third: it returns false, without issuing *)
(* the control write, when that reply is all-0xFF or is not (0x88,0x00);   *)
(* false when the control reply is not (0x90,0x00); true only if both      *)
(* checks pass.                                                            *)
(***************************************************************************)
C5_ThirdReplyDecides ==
    (op = "max111xx_check" /\ pc = "end") =>
        /\ Len(log) >= 3
        /\ MaxCmd(log[1]) = <<128, 100>>
        /\ MaxCmd(log[2]) = <<136, 0>>
        /\ MaxCmd(log[3]) = <<144, 0>>
        /\ result.kind = "bool"
        /\ LET third_ok == replies[3][2] = 136 /\ replies[3][3] = 0
           IN /\ ~third_ok => (result.val = <<0>> /\ Len(log) = 3)
              /\ third_ok => (/\ Len(log) = 4
                              /\ MaxCmd(log[4]) = <<8, 38>>
                              /\ (result.val = <<1>>)
                                     <=> (replies[4][2] = 144 /\ replies[4][3] = 0))

C5_Witness ==
    /\ op = "max111xx_check" /\ pc = "end"
    /\ result.val = <<1>>
    /\ replies[1][2] = 255 /\ replies[1][3] = 255

(***************************************************************************)
(* C6 as stated: ad5535_set_channel sends the payload                      *)
(* [0,0,b2,b1,b0,0,0] with b2:b1:b0 the big-endian 24-bit word             *)
(* (((channelID mod 32) << 14) | (value mod 16384)) << 5, and the cycle    *)
(* built around the payload is a whole number of bytes.                    *)
(***************************************************************************)
C6_Word == ((args.channelID % 32) * 16384 + (args.value % 16384)) * 32

C6_Payload ==
    <<0, 0, (C6_Word \div 65536) % 256, (C6_Word \div 256) % 256, C6_Word % 256, 0, 0>>

C6_ByteAlignedCycle ==
    (op = "ad5535_set_channel" /\ pc = "end") =>
        /\ Len(log) = 1
        /\ log[1].data = C6_Payload
        /\ log[1].cycle % 8 = 0

(***************************************************************************)
(* C6 amended: the payload is as stated and is a whole number of bytes     *)
(* (7), but the cycle built around it is 51 bit-ticks (16 + 19 + 16),      *)
(* which is not a whole number of bytes.                                   *)
(***************************************************************************)
C6_PayloadAndCycle ==
    (op = "ad5535_set_channel" /\ pc = "end") =>
        /\ Len(log) = 1
        /\ log[1].data = C6_Payload
        /\ C6_Word \div 524288 = args.channelID % 32
        /\ (C6_Word \div 32) % 16384 = args.value % 16384
        /\ C6_Word % 32 = 0
        /\ (args.channelID = 0 /\ args.value = 0) => SubSeq(log[1].data, 3, 5) = <<0, 0, 0>>
        /\ Len(log[1].data) = 7
        /\ log[1].cycle = 16 + 19 + 16

C6_Witness ==
    /\ op = "ad5535_set_channel" /\ pc = "end"
    /\ args.channelID = 33 /\ args.value = 16389
    /\ log[1].data = <<0, 0, 8, 0, 160, 0, 0>>

(***************************************************************************)
(* C7: every completed m95256_write issued, in this order: status reads    *)
(* (0x05), the last showing bit 0 clear; write-disable (0x04);             *)
(* write-enable (0x06); one write command [0x02, address high, address     *)
(* low, data...] asking for no reply; status reads, the last showing bit 0 *)
(* clear; a final write-disable.  The write command is never issued unless *)
(* the latest status reply had bit 0 clear, and the final write-disable    *)
(* never before a status reply after the write had bit 0 clear.            *)
(***************************************************************************)
C7_IsStatus(i) == IsM95(log[i], <<5>>, 1)

C7_IsWrite(i) ==
    IsM95(log[i], <<2, (args.address \div 256) % 256, args.address % 256>> \o args.data, 0)

C7_ReadyBefore(lo, i) ==
    \E j \in lo..(i - 1) :
        /\ C7_IsStatus(j) /\ Bit(replies[j], 1, 1) = 0
        /\ \A k \in (j + 1)..(i - 1) : ~C7_IsStatus(k)

C7_WriteOrder ==
    (op = "m95256_write") =>
        /\ \A i \in 1..Len(log) : M95Cmd(log[i])[1] = 2 => C7_ReadyBefore(1, i)
        /\ \A i \in 1..Len(log), w \in 1..Len(log) :
              (M95Cmd(log[w])[1] = 2 /\ w < i /\ M95Cmd(log[i]) = <<4>>)
                  => C7_ReadyBefore(w + 1, i)
        /\ (pc = "end" /\ exc = "none") =>
              /\ result = RetNone
              /\ \E k1 \in 1..Len(log) :
                    /\ Len(log) >= k1 + 5
                    /\ \A i \in 1..k1 : C7_IsStatus(i)
                    /\ Bit(replies[k1], 1, 1) = 0
                    /\ IsM95(log[k1 + 1], <<4>>, 1)
                    /\ IsM95(log[k1 + 2], <<6>>, 1)
                    /\ C7_IsWrite(k1 + 3)
                    /\ \A i \in (k1 + 4)..(Len(log) - 1) : C7_IsStatus(i)
                    /\ Bit(replies[Len(log) - 1], 1, 1) = 0
                    /\ IsM95(log[Len(log)], <<4>>, 1)

C7_Witness ==
    /\ op = "m95256_write" /\ pc = "end" /\ exc = "none"
    /\ Len(args.data) = MaxData
    /\ replies[1][2] = 2
    /\ Len(log) = 6

(***************************************************************************)
(* C8: each busy-poll loop of m95256_write retries without bound: after    *)
(* every status reply with bit 0 set another status read follows, only a   *)
(* reply with bit 0 clear ends a loop, so a chip busy for k polls and then *)
(* ready gets k+1 status reads and the call goes on and returns None.      *)
(***************************************************************************)
C8_RetryUntilReady ==
    (op = "m95256_write") =>
        /\ \A i \in 1..Len(log) :
              (C7_IsStatus(i) /\ Bit(replies[i], 1, 1) = 1) =>
                  IF i < Len(log) THEN C7_IsStatus(i + 1) ELSE pc \in {"poll1", "poll2"}
        /\ pc = "end" => (exc = "none" /\ result = RetNone)

(***************************************************************************)
(* C9: every ad7194_get_channel issues reset (8 bytes 0xFF, no read), the  *)
(* mode write, the configuration write with channelID << 4 as third byte,  *)
(* then status reads (0x40, 1 reply byte) repeated after each reply whose  *)
(* byte 1 has bit 0x80 set, and only after a reply with that bit clear one *)
(* read-result transaction (0x58, 4 reply bytes), which is the last; the   *)
(* call returns byte 1 << 16 + byte 2 << 8 + byte 3 of its reply.          *)
(***************************************************************************)
C9_PollThenRead ==
    (op = "ad7194_get_channel") =>
        /\ Len(log) >= 1 => IsAdc(log[1], <<255, 255, 255, 255, 255, 255, 255, 255>>, 0)
        /\ Len(log) >= 2 => IsAdc(log[2], <<8, 27, 36, 96>>, 0)
        /\ Len(log) >= 3 => (AdcCmd(log[3])[3] = 16 * args.channelID /\ ReadCountOf(log[3]) = 0)
        /\ \A i \in 4..Len(log) :
              \/ /\ IsAdc(log[i], <<64>>, 1)
                 /\ Bit(replies[i], 1, 128) = 1 =>
                       IF i < Len(log) THEN IsAdc(log[i + 1], <<64>>, 1) ELSE pc = "poll"
              \/ /\ IsAdc(log[i], <<88>>, 4)
                 /\ i = Len(log) /\ i > 4
                 /\ IsAdc(log[i - 1], <<64>>, 1) /\ Bit(replies[i - 1], 1, 128) = 0
        /\ pc = "end" =>
              /\ exc = "none"
              /\ IsAdc(log[Len(log)], <<88>>, 4)
              /\ result.kind = "int"
              /\ result.val = <<replies[Len(log)][2] * 65536 + replies[Len(log)][3] * 256
                                + replies[Len(log)][4]>>

(***************************************************************************)
(* C10 as stated: in every descriptor built by ad5535_ll the chip-select   *)
(* window runs from one bit before the clock-enable window's start to the  *)
(* clock-enable window's end.                                              *)
(***************************************************************************)
C10_CsSpansClock ==
    (op \in {"ad5535_ll", "ad5535_set_channel"}) =>
        \A i \in 1..Len(log) :
            log[i].cs_on = log[i].sclk_on - 1 /\ log[i].cs_off = log[i].sclk_off

(***************************************************************************)
(* C10 amended: in every descriptor built by ad5535_ll the chip-select     *)
(* window starts one bit before the clock-enable window's start and ends   *)
(* where the clock-enable window starts: cs.start = sclk_en.start - 1 and  *)
(* cs.end = sclk_en.start, one bit-tick before the 19 clocked bits.        *)
(***************************************************************************)
C10_CsPulseBeforeClock ==
    (op \in {"ad5535_ll", "ad5535_set_channel"}) =>
        \A i \in 1..Len(log) :
            /\ log[i].cs_on = log[i].sclk_on - 1
            /\ log[i].cs_off = log[i].sclk_on
            /\ log[i].sclk_off - log[i].sclk_on = 19

C10_Witness ==
    /\ op = "ad5535_ll" /\ pc = "end"
    /\ Len(log) = 1
    /\ log[1].cs_on = 15 /\ log[1].cs_off = 16 /\ log[1].sclk_off = 35

====
